---------------------------- MODULE Spec2Model ----------------------------
(***************************************************************************)
(* A model of paddles/models/runs.py: the Run entity, its name parser and  *)
(* its aggregation of the statuses of its jobs.                            *)
(*                                                                         *)
(* A Python string is modelled by the sequence of its hyphen-free          *)
(* segments, i.e. by s.split('-'): "rados-wip-foo" is <<"rados", "wip",    *)
(* "foo">> and the empty string is <<"">>.  Every literal of the three     *)
(* name patterns other than '-' sits between two hyphens, so a match of a  *)
(* pattern always covers whole segments and the patterns can be evaluated  *)
(* on segments exactly as re.match evaluates them on characters.           *)
(***************************************************************************)
EXTENDS Integers, Sequences, FiniteSets

VARIABLES runs, jobs, nextRunId, nextJobId, ret

vars == <<runs, jobs, nextRunId, nextJobId, ret>>

(***************************************************************************)
(* Bounds of the model.                                                    *)
(***************************************************************************)
\* segments that follow the user and timestamp part of a generated name
MaxTail == 6
\* datetimes are 0..MaxTime
MaxTime == 2
\* rows of the runs table ever created (lifecycle scenario)
MaxRuns == 2
\* rows of the jobs table ever created (aggregation, updated, lifecycle)
MaxJobs == 2
\* rows of the jobs table ever created (scenario with every job operation)
MaxJobsOps == 1

Times == 0..MaxTime

NoneVal == "None"

EmptyStr == <<"">>

Max(S) == CHOOSE x \in S : \A y \in S : y <= x

Min(S) == CHOOSE x \in S : \A y \in S : x <= y

(***************************************************************************)
(* The suite catalog, in the order of the source.                          *)
(***************************************************************************)
suite_names ==
    << <<"big">>,
       <<"ceph", "deploy">>,
       <<"dummy">>,
       <<"experimental">>,
       <<"fs">>,
       <<"hadoop">>,
       <<"iozone">>,
       <<"kcephfs">>,
       <<"krbd">>,
       <<"marginal">>,
       <<"mixed", "clients">>,
       <<"nfs">>,
       <<"powercycle">>,
       <<"rados">>,
       <<"rbd">>,
       <<"rgw">>,
       <<"smoke">>,
       <<"stress">>,
       <<"tgt">>,
       <<"upgrade", "cuttlefish">>,
       <<"upgrade", "dumpling">>,
       <<"upgrade", "fs">>,
       <<"upgrade", "mixed", "cluster">>,
       <<"upgrade", "mixed", "mons">>,
       <<"upgrade", "parallel">>,
       <<"upgrade", "rados", "double">>,
       <<"upgrade", "rados">>,
       <<"upgrade", "rbd", "double">>,
       <<"upgrade", "rbd">>,
       <<"upgrade", "rgw", "double">>,
       <<"upgrade", "rgw">>,
       <<"upgrade", "small">>,
       <<"upgrade">> >>

(***************************************************************************)
(* Character classes of the segments the model uses.  DigitLen(seg) is the *)
(* number of characters of a segment made of digits only, and 0 for any    *)
(* other segment.                                                          *)
(***************************************************************************)
DigitLen(seg) ==
    CASE seg = "2013" -> 4
      [] seg \in {"10", "13"} -> 2
      [] OTHER -> 0

\* segments of the shape [0-9]{1,2}_[0-9]{1,2}:[0-9]{1,2}:[0-9]{1,2}
DayTimeShaped == {"23_01:35:02", "45_25:61:61"}

\* segments made of the characters strip(' -') removes
Blank == {"", " "}

(***************************************************************************)
(* timestamp_regex matched against the three segments that start at i:     *)
(* [0-9]{1,4} - [0-9]{1,2} - [0-9]{1,2}_[0-9]{1,2}:[0-9]{1,2}:[0-9]{1,2}   *)
(***************************************************************************)
timestamp_regex(name, i) ==
    /\ i >= 1
    /\ i + 2 <= Len(name)
    /\ DigitLen(name[i]) \in 1..4
    /\ DigitLen(name[i + 1]) \in 1..2
    /\ name[i + 2] \in DayTimeShaped

(***************************************************************************)
(* The two catalog patterns, in the order get_name_regexes returns them.   *)
(* A pattern is given by its suite group and by the number of trailing     *)
(* '-.*?' groups that follow the branch group: regex_templ has three,      *)
(* regex_templ_no_mtype has two.                                           *)
(***************************************************************************)
get_name_regexes ==
    << [suite |-> "catalog", trailing |-> 3],
       [suite |-> "catalog", trailing |-> 2] >>

name_regexes == get_name_regexes

\* '.*-(?P<scheduled>ts)-(?P<suite>.*)-(?P<branch>.*)-.*?-.*?-.*?'
backup_name_regex == [suite |-> "any", trailing |-> 3]

NoMatch == [matched |-> FALSE]

\* positions where the scheduled group can start: a hyphen precedes it
TimestampStarts(name) == {i \in 2..Len(name) : timestamp_regex(name, i)}

\* the catalog members that match at p and leave room for a branch of at
\* least one segment and for the trailing groups
SuitesAt(name, p, trailing) ==
    {k \in 1..Len(suite_names) :
        /\ p + Len(suite_names[k]) - 1 <= Len(name)
        /\ SubSeq(name, p, p + Len(suite_names[k]) - 1) = suite_names[k]
        /\ Len(name) - (p + Len(suite_names[k]) - 1) >= trailing + 1}

(***************************************************************************)
(* re.match(regex, name) for a catalog pattern.  The backtracking matcher  *)
(* returns the first match in its search order: the leading '.*' is greedy *)
(* (the last possible timestamp), the alternatives of the suite group are  *)
(* tried in catalog order, the branch group is greedy and each trailing    *)
(* '.*?' needs one more hyphen after it.                                   *)
(***************************************************************************)
MatchCatalog(regex, name) ==
    LET starts == {i \in TimestampStarts(name) :
                      SuitesAt(name, i + 3, regex.trailing) # {}}
    IN  IF starts = {} THEN NoMatch
        ELSE LET i == Max(starts)
                 k == Min(SuitesAt(name, i + 3, regex.trailing))
                 p == i + 3 + Len(suite_names[k])
             IN  [matched |-> TRUE,
                  scheduled |-> SubSeq(name, i, i + 2),
                  suite |-> suite_names[k],
                  branch |-> SubSeq(name, p, Len(name) - regex.trailing)]

(***************************************************************************)
(* re.match(backup_name_regex, name): suite and branch are both greedy     *)
(* '.*', so suite takes every segment but the one left to branch and those *)
(* the trailing groups need.                                               *)
(***************************************************************************)
MatchGeneric(regex, name) ==
    LET starts == {i \in TimestampStarts(name) :
                      Len(name) - (i + 2) >= regex.trailing + 2}
    IN  IF starts = {} THEN NoMatch
        ELSE LET i == Max(starts)
                 b == Len(name) - regex.trailing
             IN  [matched |-> TRUE,
                  scheduled |-> SubSeq(name, i, i + 2),
                  suite |-> SubSeq(name, i + 3, b - 1),
                  branch |-> SubSeq(name, b, b)]

re_match(regex, name) ==
    IF regex.suite = "catalog" THEN MatchCatalog(regex, name)
    ELSE MatchGeneric(regex, name)

(***************************************************************************)
(* str.strip(' -'): leading and trailing spaces and hyphens are removed.   *)
(***************************************************************************)
strip(s) ==
    LET keep == {i \in 1..Len(s) : s[i] \notin Blank}
    IN  IF keep = {} THEN EmptyStr ELSE SubSeq(s, Min(keep), Max(keep))

(***************************************************************************)
(* datetime.strptime(ts, '%Y-%m-%d_%H:%M:%S').  %Y takes exactly four      *)
(* digits, and month, day, hour, minute and second must be in range;       *)
(* anything else raises ValueError.  A datetime is a number of Times.      *)
(***************************************************************************)
strptime(ts) ==
    IF /\ DigitLen(ts[1]) = 4
       /\ ts[2] = "10"
       /\ ts[3] = "23_01:35:02"
    THEN [raised |-> FALSE, value |-> 1]
    ELSE [raised |-> TRUE]

(***************************************************************************)
(* Run._parse_name: the first pattern that matches decides.                *)
(***************************************************************************)
parse_name_backup_first(name) ==
    LET m0 == re_match(name_regexes[1], name)
        m1 == re_match(name_regexes[2], name)
        mb == re_match(backup_name_regex, name)
        name_match == IF mb.matched THEN mb ELSE IF m0.matched THEN m0 ELSE m1
    IN  IF name_match.matched
        THEN LET scheduled == strptime(name_match.scheduled)
             IN  IF scheduled.raised THEN [kind |-> "ValueError"]
                 ELSE [kind |-> "dict",
                       scheduled |-> scheduled.value,
                       suite |-> strip(name_match.suite),
                       branch |-> strip(name_match.branch)]
        ELSE [kind |-> "empty"]

_parse_name(name) ==
    LET m0 == re_match(name_regexes[1], name)
        m1 == re_match(name_regexes[2], name)
        mb == re_match(backup_name_regex, name)
        name_match == IF m0.matched THEN m0 ELSE IF m1.matched THEN m1 ELSE mb
    IN  IF name_match.matched
        THEN LET scheduled == strptime(name_match.scheduled)
             IN  IF scheduled.raised THEN [kind |-> "ValueError"]
                 ELSE [kind |-> "dict",
                       scheduled |-> scheduled.value,
                       suite |-> strip(name_match.suite),
                       branch |-> strip(name_match.branch)]
        ELSE [kind |-> "empty"]

(***************************************************************************)
(* Run.__init__(name), with posted the value of datetime.utcnow().         *)
(***************************************************************************)
RunInitSuiteDefaultsToName(name, posted) ==
    LET parsed_name == _parse_name(name)
    IN  CASE parsed_name.kind = "ValueError" -> [raised |-> TRUE]
          [] parsed_name.kind = "dict" ->
                [raised |-> FALSE,
                 name |-> name,
                 posted |-> posted,
                 scheduled |-> parsed_name.scheduled,
                 suite |-> parsed_name.suite,
                 branch |-> parsed_name.branch]
          [] OTHER ->
                [raised |-> FALSE,
                 name |-> name,
                 posted |-> posted,
                 scheduled |-> posted,
                 suite |-> name,
                 branch |-> EmptyStr]

RunInit(name, posted) ==
    LET parsed_name == _parse_name(name)
    IN  CASE parsed_name.kind = "ValueError" -> [raised |-> TRUE]
          [] parsed_name.kind = "dict" ->
                [raised |-> FALSE,
                 name |-> name,
                 posted |-> posted,
                 scheduled |-> parsed_name.scheduled,
                 suite |-> parsed_name.suite,
                 branch |-> parsed_name.branch]
          [] OTHER ->
                [raised |-> FALSE,
                 name |-> name,
                 posted |-> posted,
                 scheduled |-> posted,
                 suite |-> EmptyStr,
                 branch |-> EmptyStr]

RunFields(r) == [f \in {"name", "suite", "branch", "posted", "scheduled"} |-> r[f]]

(***************************************************************************)
(* The database: runs and jobs are the two tables, keyed by primary key.   *)
(***************************************************************************)
NoReturn == [op |-> "none", run |-> 0, val |-> NoneVal]

Init ==
    /\ runs = <<>>
    /\ jobs = <<>>
    /\ nextRunId = 1
    /\ nextJobId = 1
    /\ ret = NoReturn

\* Run(name) followed by the insertion of the new row
CreateRun(name, posted) ==
    LET new == RunInit(name, posted)
    IN  IF new.raised
        THEN /\ ret' = [op |-> "Run", run |-> 0,
                      val |-> [name |-> name, outcome |-> "ValueError"]]
             /\ UNCHANGED <<runs, jobs, nextRunId, nextJobId>>
        ELSE /\ runs' = [r \in DOMAIN runs \cup {nextRunId} |->
                            IF r = nextRunId THEN RunFields(new) ELSE runs[r]]
             /\ nextRunId' = nextRunId + 1
             /\ ret' = [op |-> "Run", run |-> nextRunId,
                      val |-> [name |-> name, outcome |-> "created"]]
             /\ UNCHANGED <<jobs, nextJobId>>

(***************************************************************************)
(* Names of the parser scenario: a user and timestamp part followed by up  *)
(* to MaxTail segments.                                                    *)
(***************************************************************************)
Words == {"upgrade", "rados", "master", ""}

Heads ==
    { <<"teuthology", "2013", "10", "23_01:35:02">>,
      <<"teuthology", "2013", "13", "45_25:61:61">>,
      <<"teuthology">>,
      <<"2013", "10", "23_01:35:02">> }

Tails == UNION {[1..k -> Words] : k \in 0..MaxTail}

ParseNames == {h \o t : h \in Heads, t \in Tails}

ConstructOne ==
    /\ runs = <<>>
    /\ ret = NoReturn
    /\ \E name \in ParseNames, posted \in Times : CreateRun(name, posted)

NextParse == ConstructOne

SpecParse == Init /\ [][NextParse]_vars

(***************************************************************************)
(* The Job collaborator (paddles.models.jobs): a row with the run it       *)
(* belongs to and the columns the Run reads.  A new row has no status and  *)
(* no outcome.                                                             *)
(***************************************************************************)
Statuses == {"pass", "running", "fail", "dead", NoneVal}

Outcomes == {"True", "False", NoneVal}

Descriptions == {"d1", "d2"}

Job(run, description, updated) ==
    [run |-> run,
     status |-> NoneVal,
     success |-> NoneVal,
     updated |-> updated,
     description |-> description]

(***************************************************************************)
(* Queries.  A query is the set of rows it selects and the list of its     *)
(* ORDER BY columns; order_by appends a column to that list, so the rows   *)
(* come out in the lexicographic order of the listed columns.              *)
(***************************************************************************)
Column(j, c) == IF c = "id" THEN j ELSE jobs[j][c]

\* row a sorts before row b under the ORDER BY list
Precedes(a, b, order) ==
    \E n \in 1..Len(order) :
        /\ \A m \in 1..(n - 1) : Column(a, order[m]) = Column(b, order[m])
        /\ Column(a, order[n]) < Column(b, order[n])

RECURSIVE Fetch(_, _)
Fetch(rows, order) ==
    IF rows = {} THEN <<>>
    ELSE LET first == CHOOSE a \in rows :
                          \A b \in rows \ {a} : ~Precedes(b, a, order)
         IN  <<first>> \o Fetch(rows \ {first}, order)

\* Run.jobs: the jobs of the run, ORDER BY Job.id
RunJobs(r) == [rows |-> {j \in DOMAIN jobs : jobs[j].run = r}, order |-> <<"id">>]

order_by(query, column) == [query EXCEPT !.order = @ \o <<column>>]

filter_by_success(query, value) ==
    [query EXCEPT !.rows = {j \in @ : jobs[j].success = value}]

count(query) == Cardinality(query.rows)

all(query) == Fetch(query.rows, query.order)

\* list.count(x)
list_count(list, x) == Cardinality({i \in 1..Len(list) : list[i] = x})

(***************************************************************************)
(* Run.get_results                                                         *)
(***************************************************************************)
get_results_unknown_as_string(r) ==
    LET rows == all(RunJobs(r))
        jobs_status == [i \in 1..Len(rows) |-> jobs[rows[i]].status]
    IN  [pass |-> list_count(jobs_status, "pass"),
         running |-> list_count(jobs_status, "running"),
         fail |-> list_count(jobs_status, "fail"),
         dead |-> list_count(jobs_status, "dead"),
         unknown |-> list_count(jobs_status, "unknown"),
         total |-> count(RunJobs(r))]

get_results(r) ==
    LET rows == all(RunJobs(r))
        jobs_status == [i \in 1..Len(rows) |-> jobs[rows[i]].status]
    IN  [pass |-> list_count(jobs_status, "pass"),
         running |-> list_count(jobs_status, "running"),
         fail |-> list_count(jobs_status, "fail"),
         dead |-> list_count(jobs_status, "dead"),
         unknown |-> list_count(jobs_status, NoneVal),
         total |-> count(RunJobs(r))]

(***************************************************************************)
(* Run.status                                                              *)
(***************************************************************************)
status_from_job_status(r) ==
    LET running == get_results(r).running
    IN  IF running # 0 THEN "running" ELSE "finished"

status(r) ==
    LET running == count(filter_by_success(RunJobs(r), NoneVal))
    IN  IF running # 0 THEN "running" ELSE "finished"

(***************************************************************************)
(* Run.href: a one-element tuple holding the formatted address             *)
(***************************************************************************)
href(r) == << <<"conf.address", "runs", runs[r].name>> >>

(***************************************************************************)
(* Run.__json__                                                            *)
(***************************************************************************)
json(r) ==
    LET results == get_results(r)
        st == IF results.running # 0 THEN "running" ELSE "finished"
    IN  [name |-> runs[r].name,
         href |-> href(r),
         status |-> st,
         results |-> results,
         jobs_count |-> results.total,
         posted |-> runs[r].posted,
         scheduled |-> runs[r].scheduled,
         branch |-> runs[r].branch,
         suite |-> runs[r].suite]

(***************************************************************************)
(* Run.updated: self.jobs already carries ORDER BY Job.id, and             *)
(* order_by(Job.updated) adds Job.updated after it.                        *)
(***************************************************************************)
updated(r) ==
    IF count(RunJobs(r)) # 0
    THEN LET rows == all(order_by(RunJobs(r), "updated"))
             last_updated_job == rows[Len(rows)]
         IN  jobs[last_updated_job].updated
    ELSE Max({runs[r].scheduled, runs[r].posted})

(***************************************************************************)
(* Run.get_jobs and Run.get_jobs_by_description (jobs are given by id)     *)
(***************************************************************************)
get_jobs(r) == all(RunJobs(r))

get_jobs_by_description(r) ==
    LET js == get_jobs(r)
        descs == {jobs[js[i]].description : i \in 1..Len(js)}
    IN  [d \in descs |->
            js[Max({i \in 1..Len(js) : jobs[js[i]].description = d})]]

(***************************************************************************)
(* Operations on the jobs of a run.                                        *)
(***************************************************************************)
AddJob(r, description, t) ==
    /\ r \in DOMAIN runs
    /\ jobs' = [j \in DOMAIN jobs \cup {nextJobId} |->
                   IF j = nextJobId THEN Job(r, description, t) ELSE jobs[j]]
    /\ nextJobId' = nextJobId + 1
    /\ ret' = NoReturn
    /\ UNCHANGED <<runs, nextRunId>>

RemoveJob(j) ==
    /\ j \in DOMAIN jobs
    /\ jobs' = [k \in DOMAIN jobs \ {j} |-> jobs[k]]
    /\ ret' = NoReturn
    /\ UNCHANGED <<runs, nextRunId, nextJobId>>

SetStatus(j, s) ==
    /\ j \in DOMAIN jobs
    /\ jobs' = [jobs EXCEPT ![j].status = s]
    /\ ret' = NoReturn
    /\ UNCHANGED <<runs, nextRunId, nextJobId>>

SetSuccess(j, o) ==
    /\ j \in DOMAIN jobs
    /\ jobs' = [jobs EXCEPT ![j].success = o]
    /\ ret' = NoReturn
    /\ UNCHANGED <<runs, nextRunId, nextJobId>>

SetUpdated(j, t) ==
    /\ j \in DOMAIN jobs
    /\ jobs' = [jobs EXCEPT ![j].updated = t]
    /\ ret' = NoReturn
    /\ UNCHANGED <<runs, nextRunId, nextJobId>>

(***************************************************************************)
(* Deleting a run: the relationship is declared cascade='all,delete', so   *)
(* the rows of its jobs are deleted with it.                               *)
(***************************************************************************)
DeleteRunKeepsJobs(r) ==
    /\ r \in DOMAIN runs
    /\ runs' = [k \in DOMAIN runs \ {r} |-> runs[k]]
    /\ ret' = NoReturn
    /\ UNCHANGED <<jobs, nextRunId, nextJobId>>

DeleteRun(r) ==
    /\ r \in DOMAIN runs
    /\ runs' = [k \in DOMAIN runs \ {r} |-> runs[k]]
    /\ jobs' = [j \in {k \in DOMAIN jobs : jobs[k].run # r} |-> jobs[j]]
    /\ ret' = NoReturn
    /\ UNCHANGED <<nextRunId, nextJobId>>

(***************************************************************************)
(* Reads: ret is the value returned to the caller.                         *)
(***************************************************************************)
Return(op, r, value) ==
    /\ r \in DOMAIN runs
    /\ ret' = [op |-> op, run |-> r, val |-> value]
    /\ UNCHANGED <<runs, jobs, nextRunId, nextJobId>>

GetResults(r) == r \in DOMAIN runs /\ Return("get_results", r, get_results(r))

GetStatus(r) == r \in DOMAIN runs /\ Return("status", r, status(r))

Json(r) == r \in DOMAIN runs /\ Return("json", r, json(r))

GetUpdatedStoresScheduled(r) ==
    /\ r \in DOMAIN runs
    /\ ret' = [op |-> "updated", run |-> r, val |-> updated(r)]
    /\ runs' = [runs EXCEPT ![r].scheduled = updated(r)]
    /\ UNCHANGED <<jobs, nextRunId, nextJobId>>

GetUpdated(r) == r \in DOMAIN runs /\ Return("updated", r, updated(r))

GetJobs(r) == r \in DOMAIN runs /\ Return("get_jobs", r, get_jobs(r))

GetJobsByDescription(r) ==
    r \in DOMAIN runs
        /\ Return("get_jobs_by_description", r, get_jobs_by_description(r))

(***************************************************************************)
(* Scenarios.                                                              *)
(***************************************************************************)
\* a name the catalog patterns parse, and one no pattern matches
FewNames ==
    { <<"teuthology", "2013", "10", "23_01:35:02",
        "rados", "master", "testing", "basic", "plana">>,
      <<"teuthology">> }

\* the database holds one run, just constructed
InitOneRun ==
    /\ \E name \in FewNames, posted \in Times :
          runs = <<RunFields(RunInit(name, posted))>>
    /\ jobs = <<>>
    /\ nextRunId = 2
    /\ nextJobId = 1
    /\ ret = NoReturn

\* status aggregation over the jobs of a run
NextResults ==
    \/ \E r \in DOMAIN runs : nextJobId <= MaxJobs /\ AddJob(r, "d1", 0)
    \/ \E j \in DOMAIN jobs, s \in Statuses : SetStatus(j, s)
    \/ \E j \in DOMAIN jobs, o \in Outcomes : SetSuccess(j, o)
    \/ \E r \in DOMAIN runs : GetResults(r)
    \/ \E r \in DOMAIN runs : GetStatus(r)
    \/ \E r \in DOMAIN runs : Json(r)

SpecResults == InitOneRun /\ [][NextResults]_vars

\* the current time is not before any time already recorded
NotBefore(t) ==
    /\ \A r \in DOMAIN runs : runs[r].posted <= t
    /\ \A j \in DOMAIN jobs : jobs[j].updated <= t

\* the time of the last update of a run; a job is created or updated at
\* the current time
NextUpdated ==
    \/ \E r \in DOMAIN runs, t \in Times :
          nextJobId <= MaxJobs /\ NotBefore(t) /\ AddJob(r, "d1", t)
    \/ \E j \in DOMAIN jobs : RemoveJob(j)
    \/ \E j \in DOMAIN jobs, t \in Times : NotBefore(t) /\ SetUpdated(j, t)
    \/ \E r \in DOMAIN runs : GetUpdated(r)

SpecUpdated == InitOneRun /\ [][NextUpdated]_vars

\* creation and deletion of runs with their jobs
NextCascade ==
    \/ \E name \in FewNames, posted \in Times :
          nextRunId <= MaxRuns /\ CreateRun(name, posted)
    \/ \E r \in DOMAIN runs : nextJobId <= MaxJobs /\ AddJob(r, "d1", 0)
    \/ \E r \in DOMAIN runs : DeleteRun(r)

SpecCascade == Init /\ [][NextCascade]_vars

\* every operation on the jobs of a constructed run, and every read
Next ==
    \/ \E r \in DOMAIN runs, d \in Descriptions, t \in Times :
          nextJobId <= MaxJobsOps /\ AddJob(r, d, t)
    \/ \E j \in DOMAIN jobs : RemoveJob(j)
    \/ \E j \in DOMAIN jobs, s \in Statuses : SetStatus(j, s)
    \/ \E j \in DOMAIN jobs, o \in Outcomes : SetSuccess(j, o)
    \/ \E j \in DOMAIN jobs, t \in Times : SetUpdated(j, t)
    \/ \E r \in DOMAIN runs : GetResults(r)
    \/ \E r \in DOMAIN runs : GetStatus(r)
    \/ \E r \in DOMAIN runs : GetUpdated(r)
    \/ \E r \in DOMAIN runs : GetJobs(r)
    \/ \E r \in DOMAIN runs : GetJobsByDescription(r)
    \/ \E r \in DOMAIN runs : Json(r)

Spec == InitOneRun /\ [][Next]_vars

(***************************************************************************)
(* Properties of the name parser, checked under SpecParse.                 *)
(***************************************************************************)
Constructed == ret.op = "Run" /\ ret.val.outcome = "created"

NoPatternMatches(name) ==
    /\ ~re_match(name_regexes[1], name).matched
    /\ ~re_match(name_regexes[2], name).matched
    /\ ~re_match(backup_name_regex, name).matched

\* C4: constructing a Run never raises, whatever the name: a name that
\* cannot be parsed, a timestamp that is no valid date included, gives a
\* run with the fallback defaults.
C4_ConstructionNeverRaises ==
    ret.op = "Run" =>
        /\ ret.val.outcome = "created"
        /\ ret.run \in DOMAIN runs
        /\ runs[ret.run].name = ret.val.name

\* C5: a name that matches none of the three patterns parses to the empty
\* mapping, and the run constructed from it has suite = "", branch = "" and
\* scheduled = posted.
C5_NoPatternGivesDefaults ==
    ret.op = "Run" /\ NoPatternMatches(ret.val.name) =>
        /\ _parse_name(ret.val.name) = [kind |-> "empty"]
        /\ Constructed
        /\ runs[ret.run].name = ret.val.name
        /\ runs[ret.run].suite = EmptyStr
        /\ runs[ret.run].branch = EmptyStr
        /\ runs[ret.run].scheduled = runs[ret.run].posted

C5_Witness ==
    /\ Constructed
    /\ NoPatternMatches(runs[ret.run].name)
    /\ TimestampStarts(runs[ret.run].name) # {}
    /\ runs[ret.run].scheduled = runs[ret.run].posted
    /\ runs[ret.run].posted # 1

(***************************************************************************)
(* The readings of a name as user-timestamp-suite-branch-flavor with an    *)
(* optional -machine_type: user, flavor and machine_type are one non-empty *)
(* segment each, the timestamp is a valid date, suite is a catalog member  *)
(* and branch is one or more non-empty segments.                           *)
(***************************************************************************)
Readings(name) ==
    IF ~(/\ Len(name) >= 4
         /\ name[1] \notin Blank
         /\ timestamp_regex(name, 2)
         /\ ~strptime(SubSeq(name, 2, 4)).raised)
    THEN {}
    ELSE LET rest(k) == SubSeq(name, 5 + Len(suite_names[k]), Len(name))
             fits(k, after) ==
                 /\ 4 + Len(suite_names[k]) <= Len(name)
                 /\ SubSeq(name, 5, 4 + Len(suite_names[k])) = suite_names[k]
                 /\ Len(rest(k)) >= 1 + after
                 /\ \A i \in 1..Len(rest(k)) : rest(k)[i] \notin Blank
         IN  {[suite |-> suite_names[k],
               branch |-> SubSeq(rest(k), 1, Len(rest(k)) - after),
               scheduled |-> strptime(SubSeq(name, 2, 4)).value] :
                 <<k, after>> \in {x \in (1..Len(suite_names)) \X {1, 2} :
                                      fits(x[1], x[2])}}

\* C6: a well-formed name user-timestamp-suite-branch-flavor[-machine_type]
\* with a catalog suite S and a branch B that may contain hyphens gives a
\* run with suite = S, branch = B and scheduled = the timestamp of the name.
\* A name can be well-formed in more than one way; the property is stated
\* in the form most favourable to the code: the run must agree with at
\* least one reading of its name.
C6_WellFormedNameParses ==
    ret.op = "Run" /\ Readings(ret.val.name) # {} =>
        /\ Constructed
        /\ \E w \in Readings(ret.val.name) :
              /\ runs[ret.run].suite = w.suite
              /\ runs[ret.run].branch = w.branch
              /\ runs[ret.run].scheduled = w.scheduled

\* C9: the three patterns are tried in a fixed order and the first one that
\* matches decides: the backup pattern gives suite and branch only when
\* neither catalog pattern matches.
C9_FirstMatchingPatternDecides ==
    Constructed =>
        LET name == runs[ret.run].name
            m0 == re_match(name_regexes[1], name)
            m1 == re_match(name_regexes[2], name)
            mb == re_match(backup_name_regex, name)
            from(m) == /\ runs[ret.run].suite = strip(m.suite)
                       /\ runs[ret.run].branch = strip(m.branch)
        IN  /\ m0.matched => from(m0)
            /\ ~m0.matched /\ m1.matched => from(m1)
            /\ ~m0.matched /\ ~m1.matched /\ mb.matched => from(mb)

C9_Witness ==
    /\ Constructed
    /\ LET name == runs[ret.run].name
           m0 == re_match(name_regexes[1], name)
           mb == re_match(backup_name_regex, name)
       IN  /\ m0.matched
           /\ mb.matched
           /\ strip(mb.suite) # strip(m0.suite)
           /\ runs[ret.run].suite = strip(m0.suite)
           /\ runs[ret.run].branch = strip(m0.branch)

(***************************************************************************)
(* Properties of the status aggregation, checked under SpecResults.        *)
(***************************************************************************)
JobsOf(r) == {j \in DOMAIN jobs : jobs[j].run = r}

NoOutcome(r) == \E j \in JobsOf(r) : jobs[j].success = NoneVal

\* C1: the counts get_results returns add up to its total, and the total is
\* the number of jobs of the run.
C1_CountsSumToTotal ==
    ret.op = "get_results" =>
        /\ ret.val.pass + ret.val.running + ret.val.fail + ret.val.dead
              + ret.val.unknown = ret.val.total
        /\ ret.val.total = Cardinality(JobsOf(ret.run))

C1_Witness ==
    /\ ret.op = "get_results"
    /\ ret.val.total >= 2
    /\ ret.val.unknown >= 1
    /\ ret.val.unknown < ret.val.total

\* C2: Run.status is "running" exactly when some job of the run has no
\* recorded outcome, and "finished" otherwise (a run without jobs included).
C2_RunningIffNoOutcome ==
    ret.op = "status" =>
        ret.val = IF NoOutcome(ret.run) THEN "running" ELSE "finished"

C2_Witness ==
    /\ ret.op = "status"
    /\ ret.val = "running"
    /\ \E j \in JobsOf(ret.run) : jobs[j].success = "True"
    /\ \E j \in JobsOf(ret.run) : jobs[j].success = NoneVal

\* C3: the status field __json__ produces is "running" when some job of the
\* run lacks a final outcome and "finished" otherwise, so it equals
\* Run.status.
C3_JsonStatusIsRunStatus ==
    ret.op = "json" =>
        /\ ret.val.status = status(ret.run)
        /\ ret.val.status = IF NoOutcome(ret.run) THEN "running" ELSE "finished"

(***************************************************************************)
(* Run.updated, checked under SpecUpdated.                                 *)
(***************************************************************************)
\* C10: Run.updated is the greatest updated time over the jobs of the run,
\* whatever their ids, and max(scheduled, posted) for a run without jobs.
C10_UpdatedIsLatest ==
    ret.op = "updated" =>
        ret.val = IF JobsOf(ret.run) # {}
                  THEN Max({jobs[j].updated : j \in JobsOf(ret.run)})
                  ELSE Max({runs[ret.run].scheduled, runs[ret.run].posted})

(***************************************************************************)
(* The frame of the job operations and of the reads, checked under Spec.   *)
(***************************************************************************)
\* C7: no operation on the jobs of a run and no read changes the name,
\* suite, branch, posted or scheduled of a constructed run.
C7_RunFieldsUnchanged ==
    [][\A r \in DOMAIN runs :
          /\ r \in DOMAIN runs'
          /\ \A f \in {"name", "suite", "branch", "posted", "scheduled"} :
                runs'[r][f] = runs[r][f]]_vars

C7_Witness ==
    /\ ret.op = "updated"
    /\ \E j \in JobsOf(ret.run) :
          /\ jobs[j].status # NoneVal
          /\ jobs[j].success # NoneVal
          /\ jobs[j].updated # runs[ret.run].scheduled
          /\ ret.val = jobs[j].updated

(***************************************************************************)
(* Deletion, checked under SpecCascade.                                    *)
(***************************************************************************)
\* C8: deleting a run deletes its jobs: no job ever belongs to a run that
\* is gone, and a deletion leaves the jobs of the other runs as they were.
C8_DeleteCascades ==
    [][/\ \A j \in DOMAIN jobs' : jobs'[j].run \in DOMAIN runs'
       /\ \A r \in DOMAIN runs \ DOMAIN runs' :
             \A j \in DOMAIN jobs :
                jobs[j].run # r => j \in DOMAIN jobs' /\ jobs'[j] = jobs[j]]_vars

C8_Witness ==
    /\ nextRunId - 1 > Cardinality(DOMAIN runs)
    /\ nextJobId - 1 > Cardinality(DOMAIN jobs)
    /\ jobs # <<>>

=============================================================================
